---------------------------- MODULE Spec2Model ----------------------------
(***************************************************************************)
(* The Tauri command layer of rust-app: the input validator                *)
(* (security.rs), the query client (api_client.rs) and the six commands    *)
(* of lib.rs.  Every command invocation is a process that issues its HTTP  *)
(* request, is suspended on the await, and is resumed with the backend's   *)
(* reply.                                                                  *)
(*                                                                         *)
(* The question is a sequence of one-character strings; the other strings  *)
(* are atomic.  A text produced by format!/push_str is a sequence of       *)
(* pieces: Lit(s) is literal text, Raw(b) the text of a response body,     *)
(* Display(e) the Display form of an error value.  An emoji of a literal   *)
(* of the program is written as its name in brackets, and accented         *)
(* letters without their accent.                                           *)
(***************************************************************************)
EXTENDS Integers, Sequences, FiniteSets, TLC

VARIABLES
    scope,      \* which input domains the caller and the backend draw from
    pc,         \* pc[i]: "idle", "awaiting" (suspended on the HTTP await), "done"
    op,         \* op[i]: the command invocation i runs
    arg,        \* arg[i]: the arguments the command was invoked with
    request,    \* request[i]: the HTTP request invocation i issued
    requests,   \* requests[i]: how many HTTP requests invocation i has issued
    reply,      \* reply[i]: what the await of invocation i returned
    outcome     \* outcome[i]: the Result the command returned

vars == <<scope, pc, op, arg, request, requests, reply, outcome>>

-----------------------------------------------------------------------------
(* Bounds of the model *)

\* concurrent invocations in the gateway scope
NumInvocations == 2
\* longest JSON array the backend returns as `result`
MaxRecords == 6
\* longest padding before and after a word of a question
MaxPad == 1

-----------------------------------------------------------------------------
(* Values *)

None == [some |-> FALSE]
Some(x) == [some |-> TRUE, val |-> x]

Lit(s) == [lit |-> s]
Raw(b) == [raw |-> b]
Display(e) == [display |-> e]
NL == Lit("\n")

\* Result<T, E>; the E of a command is the text of its message
Ok(v) == [ok |-> TRUE, value |-> v]
Err(e) == [ok |-> FALSE, err |-> e]

NoArg == [none |-> TRUE]
NoRequest == [method |-> "none"]
NoReply == [state |-> "none"]
NoOutcome == [pending |-> TRUE]

\* JSON values
JNull == [t |-> "null"]
JBool(b) == [t |-> "bool", b |-> b]
JNum(n) == [t |-> "num", n |-> n]
JStr(s) == [t |-> "str", s |-> s]
JArr(items) == [t |-> "arr", items |-> items]
JObj(fields) == [t |-> "obj", fields |-> fields]
Absent == [t |-> "absent"]

\* A response body: a JSON document, or text that is no JSON
NotJson(s) == [t |-> "text", s |-> s]

-----------------------------------------------------------------------------
(* security.rs *)

UpperCase == <<"A","B","C","D","E","F","G","H","I","J","K","L","M",
               "N","O","P","Q","R","S","T","U","V","W","X","Y","Z">>
LowerCase == <<"a","b","c","d","e","f","g","h","i","j","k","l","m",
               "n","o","p","q","r","s","t","u","v","w","x","y","z">>

\* char::to_lowercase, on the ASCII letters
to_lowercase_char(c) ==
    IF \E k \in DOMAIN UpperCase : UpperCase[k] = c
    THEN LowerCase[CHOOSE k \in DOMAIN UpperCase : UpperCase[k] = c]
    ELSE c

\* str::to_lowercase
to_lowercase(s) == [k \in DOMAIN s |-> to_lowercase_char(s[k])]

\* str::contains
contains(hay, needle) ==
    \E off \in 0..(Len(hay) - Len(needle)) :
        SubSeq(hay, off + 1, off + Len(needle)) = needle

blacklist == << <<"D","R","O","P">>,
                <<"D","E","L","E","T","E">>,
                <<"I","N","S","E","R","T">>,
                <<"U","P","D","A","T","E">> >>

\* a validator that compares the words as written, without lower-casing them
validate_input_case_sensitive(input) ==
    ~ \E w \in DOMAIN blacklist : contains(to_lowercase(input), blacklist[w])

validate_input(input) ==
    ~ \E w \in DOMAIN blacklist :
        contains(to_lowercase(input), to_lowercase(blacklist[w]))

-----------------------------------------------------------------------------
(* reqwest and serde, as the commands use them *)

\* reqwest::Error of send(): the request did not reach the backend
SendError(cause) == [kind |-> "request", cause |-> cause]
\* reqwest::Error of json(): the body could not be read to its end
BodyError == [kind |-> "body"]
\* serde_json::Error: the text is not of the expected shape
JsonError == [kind |-> "serde_json"]
\* reqwest::Error of json(): the serde_json error, wrapped
DecodeError == [kind |-> "decode", source |-> JsonError]

Unreadable == [t |-> "unreadable"]

Failed(e) == [state |-> "failed", err |-> e]
Response(body) == [state |-> "response", body |-> body]

Field(o, f) == IF f \in DOMAIN o.fields THEN o.fields[f] ELSE Absent

IsMissing(v) == v.t \in {"absent", "null"}
IsOptString(v) == IsMissing(v) \/ v.t = "str"
IsStringVec(v) == v.t = "arr" /\ \A k \in DOMAIN v.items : v.items[k].t = "str"
IsStringMap(v) == v.t = "obj" /\ \A k \in DOMAIN v.fields : v.fields[k].t = "str"

IsUsize(v) == v.t = "num" /\ v.n >= 0

OptString(v) == IF IsMissing(v) THEN None ELSE Some(v.s)
Strings(v) == [k \in DOMAIN v.items |-> v.items[k].s]

deserialize_QueryResponse(b) ==
    IF /\ b.t = "obj"
       /\ Field(b, "success").t = "bool"
       /\ IsOptString(Field(b, "sql"))
       /\ IsOptString(Field(b, "ai_response"))
       /\ IsOptString(Field(b, "error"))
       /\ (IsMissing(Field(b, "tables_available")) \/ IsStringVec(Field(b, "tables_available")))
       /\ (IsMissing(Field(b, "row_count")) \/ IsUsize(Field(b, "row_count")))
    THEN Ok([success |-> Field(b, "success").b,
             sql |-> OptString(Field(b, "sql")),
             result |-> IF IsMissing(Field(b, "result")) THEN None
                        ELSE Some(Field(b, "result")),
             ai_response |-> OptString(Field(b, "ai_response")),
             error |-> OptString(Field(b, "error")),
             tables_available |-> IF IsMissing(Field(b, "tables_available")) THEN None
                                  ELSE Some(Strings(Field(b, "tables_available"))),
             row_count |-> IF IsMissing(Field(b, "row_count")) THEN None
                           ELSE Some(Field(b, "row_count").n)])
    ELSE Err(JsonError)

deserialize_DatabaseResponse(b) ==
    IF /\ b.t = "obj"
       /\ Field(b, "success").t = "bool"
       /\ Field(b, "message").t = "str"
       /\ IsOptString(Field(b, "driver_type"))
       /\ IsStringVec(Field(b, "tables"))
    THEN Ok([success |-> Field(b, "success").b,
             message |-> Field(b, "message").s,
             driver_type |-> OptString(Field(b, "driver_type")),
             tables |-> Strings(Field(b, "tables"))])
    ELSE Err(JsonError)

deserialize_SimpleResponse(b) ==
    IF /\ b.t = "obj"
       /\ Field(b, "success").t = "bool"
       /\ Field(b, "message").t = "str"
    THEN Ok([success |-> Field(b, "success").b,
             message |-> Field(b, "message").s])
    ELSE Err(JsonError)

deserialize_DatabaseStatus(b) ==
    IF /\ b.t = "obj"
       /\ Field(b, "connected").t = "bool"
       /\ IsOptString(Field(b, "driver_type"))
       /\ IsStringVec(Field(b, "tables"))
    THEN Ok([connected |-> Field(b, "connected").b,
             driver_type |-> OptString(Field(b, "driver_type")),
             tables |-> Strings(Field(b, "tables"))])
    ELSE Err(JsonError)

IsDriver(v) ==
    /\ v.t = "obj"
    /\ Field(v, "name").t = "str"
    /\ Field(v, "description").t = "str"
    /\ IsStringVec(Field(v, "required_fields"))
    /\ IsStringMap(Field(v, "field_types"))

deserialize_Driver(v) ==
    [name |-> Field(v, "name").s,
     description |-> Field(v, "description").s,
     required_fields |-> Strings(Field(v, "required_fields")),
     field_types |-> [k \in DOMAIN Field(v, "field_types").fields |->
                         Field(v, "field_types").fields[k].s]]

\* HashMap<String, Driver>
deserialize_Drivers(b) ==
    IF b.t = "obj" /\ \A k \in DOMAIN b.fields : IsDriver(b.fields[k])
    THEN Ok([k \in DOMAIN b.fields |-> deserialize_Driver(b.fields[k])])
    ELSE Err(JsonError)

\* Response::json::<T>(), `parsed` being the body deserialized as T
response_json(body, parsed) ==
    IF body = Unreadable THEN Err(BodyError)
    ELSE IF parsed.ok THEN parsed
    ELSE Err(DecodeError)

-----------------------------------------------------------------------------
(* Display of the values the commands format *)

DigitChars == <<"0","1","2","3","4","5","6","7","8","9">>

\* Display of usize
RECURSIVE Decimal(_)
Decimal(n) ==
    IF n < 10 THEN <<Lit(DigitChars[n + 1])>>
    ELSE Decimal(n \div 10) \o <<Lit(DigitChars[(n % 10) + 1])>>

\* Display of serde_json::Value: compact JSON (objects are not among the
\* values the model's backend puts in `result`)
RECURSIVE value_display(_)
RECURSIVE items_display(_, _)
value_display(v) ==
    CASE v.t = "null" -> <<Lit("null")>>
      [] v.t = "bool" -> <<Lit(IF v.b THEN "true" ELSE "false")>>
      [] v.t = "num" -> Decimal(v.n)
      [] v.t = "str" -> <<Lit("\""), Lit(v.s), Lit("\"")>>
      [] v.t = "arr" -> <<Lit("[")>> \o items_display(v.items, 1) \o <<Lit("]")>>
items_display(items, k) ==
    IF k > Len(items) THEN <<>>
    ELSE (IF k > 1 THEN <<Lit(",")>> ELSE <<>>)
         \o value_display(items[k]) \o items_display(items, k + 1)

-----------------------------------------------------------------------------
(* lib.rs: the text send_query builds from a successful QueryResponse *)

\* how many records of an array the text shows
ShownRecords == 5

\* a loop that shows the records up to index 5, the sixth with them
RECURSIVE record_lines_one_more(_, _)
record_lines_one_more(results, i) ==
    IF i >= Len(results) THEN <<>>
    ELSE (IF i <= ShownRecords
          THEN <<Lit("  ")>> \o Decimal(i + 1) \o <<Lit(": ")>>
               \o value_display(results[i + 1]) \o <<NL>>
          ELSE <<>>)
         \o record_lines_one_more(results, i + 1)

\* the loop over the records, from the record of 0-based index i on
RECURSIVE record_lines(_, _)
record_lines(results, i) ==
    IF i >= Len(results) THEN <<>>
    ELSE (IF i < ShownRecords
          THEN <<Lit("  ")>> \o Decimal(i + 1) \o <<Lit(": ")>>
               \o value_display(results[i + 1]) \o <<NL>>
          ELSE <<>>)
         \o record_lines(results, i + 1)

\* a section that is written for an empty ai_response too
ai_section_unchecked(response) ==
    IF response.ai_response.some
    THEN <<Lit("[robot] IA: "), Lit(response.ai_response.val), NL, NL>>
    ELSE <<>>

ai_section(response) ==
    IF response.ai_response.some /\ response.ai_response.val # ""
    THEN <<Lit("[robot] IA: "), Lit(response.ai_response.val), NL, NL>>
    ELSE <<>>

sql_section(response) ==
    IF response.sql.some /\ response.sql.val # ""
    THEN <<Lit("[memo] SQL: "), Lit(response.sql.val), NL, NL>>
    ELSE <<>>

result_section(response) ==
    IF response.result.some
    THEN <<Lit("[chart] Resultado:"), NL>> \o
         (IF response.result.val.t = "arr"
          THEN (IF Len(response.result.val.items) = 0
                THEN <<Lit("Nenhum resultado encontrado."), NL>>
                ELSE Decimal(Len(response.result.val.items))
                     \o <<Lit(" registros encontrados:"), NL>>
                     \o record_lines(response.result.val.items, 0)
                     \o (IF Len(response.result.val.items) > ShownRecords
                         THEN <<Lit("  ... e mais ")>>
                              \o Decimal(Len(response.result.val.items) - ShownRecords)
                              \o <<Lit(" registros"), NL>>
                         ELSE <<>>))
          ELSE value_display(response.result.val) \o <<NL>>)
    ELSE <<>>

row_count_section(response) ==
    IF response.row_count.some
    THEN <<NL, Lit("[trend] Total de registros: ")>> \o Decimal(response.row_count.val)
    ELSE <<>>

result_text(response) ==
    ai_section(response) \o sql_section(response)
    \o result_section(response) \o row_count_section(response)

-----------------------------------------------------------------------------
(* What the caller passes and what the backend answers *)

Invocations == IF scope = "gateway" THEN 1..NumInvocations ELSE 1..1

Causes == {"connection refused", "operation timed out"}

PadChars == {" ", "d"}
Pads == UNION {[1..n -> PadChars] : n \in 0..MaxPad}

\* every spelling of w in upper and lower case letters
CaseVariants(w) ==
    {[k \in DOMAIN w |-> IF k \in S THEN w[k] ELSE to_lowercase_char(w[k])] :
        S \in SUBSET DOMAIN w}

\* w with one character left out
Misspellings(w) ==
    {SubSeq(w, 1, k - 1) \o SubSeq(w, k + 1, Len(w)) : k \in DOMAIN w}

Words ==
    UNION {CaseVariants(blacklist[w]) \cup Misspellings(to_lowercase(blacklist[w])) :
              w \in DOMAIN blacklist}
    \cup {<<"s","e","l","e","c","t">>}

Questions ==
    IF scope = "validate"
    THEN {pre \o w \o post : pre \in Pads, w \in Words, post \in Pads}
    ELSE {<<"h","i">>, <<"D","r","o","p">>}

DriverTypes == {"sqlite"}
Configs == {[path |-> JStr("app.db")]}

BodyHtml == NotJson("Internal Server Error")
BodyDetail == JObj([detail |-> JStr("Not Found")])
BodySimple == JObj([success |-> JBool(TRUE), message |-> JStr("ok")])
BodyDatabase ==
    JObj([success |-> JBool(TRUE), message |-> JStr("connected"),
          driver_type |-> JStr("sqlite"), tables |-> JArr(<<JStr("users")>>)])
BodyStatus ==
    JObj([connected |-> JBool(FALSE), driver_type |-> JNull, tables |-> JArr(<<>>)])
BodyDrivers ==
    JObj([sqlite |-> JObj([name |-> JStr("SQLite"), description |-> JStr("file"),
                           required_fields |-> JArr(<<JStr("path")>>),
                           field_types |-> JObj([path |-> JStr("string")])])])
BodyQuery ==
    JObj([success |-> JBool(TRUE), sql |-> JStr("SELECT 1"),
          result |-> JArr(<<JNum(1)>>), row_count |-> JNum(1)])
BodyQueryFailed == JObj([success |-> JBool(FALSE), error |-> JStr("syntax error")])
BodyQueryFailedBare == JObj([success |-> JBool(FALSE)])

SmallBodies ==
    {BodyHtml, BodyDetail, BodySimple, BodyDatabase, BodyStatus, BodyDrivers,
     BodyQuery, BodyQueryFailed, BodyQueryFailedBare}

\* the bodies of the gateway scope: text, a JSON of no shape, and those meant
\* for the path
PathBodies(path) ==
    {BodyHtml, BodyDetail} \cup
    CASE path = "/ai/process" -> {BodyQuery, BodyQueryFailed, BodyQueryFailedBare}
      [] path = "/drivers" -> {BodyDrivers}
      [] path = "/database/connect" -> {BodyDatabase}
      [] path = "/database/status" -> {BodyStatus}
      [] OTHER -> {BodySimple}

Scalars == {JNum(7), JStr("a")}
Arrays ==
    {JArr(items) : items \in UNION {[1..n -> Scalars] : n \in 0..2}}
    \cup {JArr([k \in 1..n |-> JNum(k)]) : n \in 0..MaxRecords}

\* a JSON object of the given fields, a field of value Absent left out
Object(fields) ==
    JObj([f \in {g \in DOMAIN fields : fields[g] # Absent} |-> fields[f]])

QueryBodies ==
    {Object([success |-> JBool(s), ai_response |-> ai, sql |-> sql,
             result |-> res, row_count |-> rc, error |-> e]) :
        s \in BOOLEAN,
        ai \in {Absent, JStr(""), JStr("Hi")},
        sql \in {Absent, JStr(""), JStr("SELECT 1")},
        res \in {Absent, JNull} \cup Scalars \cup Arrays,
        rc \in {Absent, JNum(0), JNum(12), JNum(-1)},
        e \in {Absent, JNull, JStr(""), JStr("syntax error")}}

Bodies(path) ==
    IF scope = "gateway" THEN PathBodies(path)
    ELSE IF scope = "format" /\ path = "/ai/process" THEN QueryBodies
    ELSE SmallBodies

Replies(path) ==
    {Failed(SendError(c)) : c \in Causes}
    \cup {Response(Unreadable)}
    \cup {Response(b) : b \in Bodies(path)}

-----------------------------------------------------------------------------
(* The steps every command is made of *)

\* Client::new() ... send(): the request leaves on a client of the invocation's
\* own, and the invocation is suspended on the await
Send(i, name, a, method, path, payload) ==
    /\ pc[i] = "idle"
    /\ pc' = [pc EXCEPT ![i] = "awaiting"]
    /\ op' = [op EXCEPT ![i] = name]
    /\ arg' = [arg EXCEPT ![i] = a]
    /\ request' = [request EXCEPT ![i] =
                      [method |-> method, path |-> path, payload |-> payload]]
    /\ requests' = [requests EXCEPT ![i] = @ + 1]
    /\ UNCHANGED <<scope, reply, outcome>>

\* a command that sends its request again when it did not reach the backend
ReturnOrRetry(i, r, result) ==
    IF r.state = "failed"
    THEN /\ requests' = [requests EXCEPT ![i] = @ + 1]
         /\ UNCHANGED <<scope, pc, op, arg, request, reply, outcome>>
    ELSE /\ pc' = [pc EXCEPT ![i] = "done"]
         /\ reply' = [reply EXCEPT ![i] = r]
         /\ outcome' = [outcome EXCEPT ![i] = result]
         /\ UNCHANGED <<scope, op, arg, request, requests>>

\* commands that keep the last result in a place they share: a command
\* returns what the one before it returned
ReturnShared(i, r, result) ==
    /\ pc' = [pc EXCEPT ![i] = "done"]
    /\ reply' = [reply EXCEPT ![i] = r]
    /\ outcome' = [outcome EXCEPT ![i] =
                      IF \E j \in Invocations : pc[j] = "done" /\ op[j] = op[i]
                      THEN outcome[CHOOSE j \in Invocations :
                                       pc[j] = "done" /\ op[j] = op[i]]
                      ELSE result]
    /\ UNCHANGED <<scope, op, arg, request, requests>>

\* the await returned r, and the command returns `result` to its caller
Return(i, r, result) ==
    /\ pc' = [pc EXCEPT ![i] = "done"]
    /\ reply' = [reply EXCEPT ![i] = r]
    /\ outcome' = [outcome EXCEPT ![i] = result]
    /\ UNCHANGED <<scope, op, arg, request, requests>>

-----------------------------------------------------------------------------
(* api_client.rs and lib.rs: send_query *)

\* what api_client::send_query returns when its await returned r
api_client_send_query(r) ==
    IF r.state = "failed" THEN Err(r.err)
    ELSE response_json(r.body, deserialize_QueryResponse(r.body))

\* a command that falls back to an empty message
backend_error_empty(response) ==
    Err(<<Lit("[x] "), Lit(IF response.error.some THEN response.error.val ELSE "")>>)

backend_error(response) ==
    Err(<<Lit("[x] "),
          Lit(IF response.error.some THEN response.error.val
              ELSE "Erro desconhecido")>>)

send_query_result(r) ==
    IF api_client_send_query(r).ok
    THEN IF api_client_send_query(r).value.success
         THEN Ok(result_text(api_client_send_query(r).value))
         ELSE backend_error(api_client_send_query(r).value)
    ELSE Err(<<Lit("Erro ao comunicar com backend: "),
               Display(api_client_send_query(r).err)>>)

\* a command that sends the question without validating it
send_query_call_unvalidated(i, question) ==
    Send(i, "send_query", [question |-> question], "POST", "/ai/process",
         [question |-> question])

send_query_call(i, question) ==
    /\ pc[i] = "idle"
    /\ IF ~ validate_input(question)
       THEN /\ pc' = [pc EXCEPT ![i] = "done"]
            /\ op' = [op EXCEPT ![i] = "send_query"]
            /\ arg' = [arg EXCEPT ![i] = [question |-> question]]
            /\ outcome' = [outcome EXCEPT ![i] =
                              Err(<<Lit("Entrada bloqueada por seguranca!")>>)]
            /\ UNCHANGED <<scope, request, requests, reply>>
       ELSE Send(i, "send_query", [question |-> question], "POST", "/ai/process",
                 [question |-> question])

send_query_resume(i) ==
    /\ pc[i] = "awaiting"
    /\ op[i] = "send_query"
    /\ \E r \in Replies(request[i].path) : Return(i, r, send_query_result(r))

-----------------------------------------------------------------------------
(* lib.rs: the five pass-through commands *)

get_database_drivers_result(r) ==
    IF r.state = "failed"
    THEN Err(<<Lit("Erro ao conectar com backend: "), Display(r.err)>>)
    ELSE IF response_json(r.body, deserialize_Drivers(r.body)).ok
         THEN Ok(response_json(r.body, deserialize_Drivers(r.body)).value)
         ELSE Err(<<Lit("Erro ao processar resposta: "),
                    Display(response_json(r.body, deserialize_Drivers(r.body)).err)>>)

get_database_drivers_call(i) ==
    Send(i, "get_database_drivers", NoArg, "GET", "/drivers", NoArg)

get_database_drivers_resume(i) ==
    /\ pc[i] = "awaiting"
    /\ op[i] = "get_database_drivers"
    /\ \E r \in Replies(request[i].path) : Return(i, r, get_database_drivers_result(r))

\* Response::text().await.unwrap_or(..)
response_text(body) ==
    IF body = Unreadable THEN Lit("Erro ao ler resposta") ELSE Raw(body)

\* serde_json::from_str::<DatabaseResponse>(&text)
from_str_DatabaseResponse(text) ==
    IF text = Lit("Erro ao ler resposta") THEN Err(JsonError)
    ELSE deserialize_DatabaseResponse(text.raw)

connect_database_result(r) ==
    IF r.state = "failed"
    THEN Err(<<Lit("Erro ao conectar com backend: "), Display(r.err)>>)
    ELSE IF from_str_DatabaseResponse(response_text(r.body)).ok
         THEN Ok(from_str_DatabaseResponse(response_text(r.body)).value)
         ELSE Err(<<Lit("Erro ao processar JSON: "),
                    Display(from_str_DatabaseResponse(response_text(r.body)).err),
                    Lit(" - Resposta: "), response_text(r.body)>>)

connect_database_call(i, driver_type, config) ==
    Send(i, "connect_database", [driver_type |-> driver_type, config |-> config],
         "POST", "/database/connect",
         [driver_type |-> driver_type, config |-> config])

connect_database_resume(i) ==
    /\ pc[i] = "awaiting"
    /\ op[i] = "connect_database"
    /\ \E r \in Replies(request[i].path) : Return(i, r, connect_database_result(r))

disconnect_database_result(r) ==
    IF r.state = "failed"
    THEN Err(<<Lit("Erro ao conectar com backend: "), Display(r.err)>>)
    ELSE IF response_json(r.body, deserialize_SimpleResponse(r.body)).ok
         THEN Ok(response_json(r.body, deserialize_SimpleResponse(r.body)).value)
         ELSE Err(<<Lit("Erro ao processar resposta: "),
                    Display(response_json(r.body, deserialize_SimpleResponse(r.body)).err)>>)

disconnect_database_call(i) ==
    Send(i, "disconnect_database", NoArg, "POST", "/database/disconnect", NoArg)

disconnect_database_resume(i) ==
    /\ pc[i] = "awaiting"
    /\ op[i] = "disconnect_database"
    /\ \E r \in Replies(request[i].path) : Return(i, r, disconnect_database_result(r))

get_database_status_result(r) ==
    IF r.state = "failed"
    THEN Err(<<Lit("Erro ao conectar com backend: "), Display(r.err)>>)
    ELSE IF response_json(r.body, deserialize_DatabaseStatus(r.body)).ok
         THEN Ok(response_json(r.body, deserialize_DatabaseStatus(r.body)).value)
         ELSE Err(<<Lit("Erro ao processar resposta: "),
                    Display(response_json(r.body, deserialize_DatabaseStatus(r.body)).err)>>)

get_database_status_call(i) ==
    Send(i, "get_database_status", NoArg, "GET", "/database/status", NoArg)

get_database_status_resume(i) ==
    /\ pc[i] = "awaiting"
    /\ op[i] = "get_database_status"
    /\ \E r \in Replies(request[i].path) : Return(i, r, get_database_status_result(r))

create_sample_data_result(r) ==
    IF r.state = "failed"
    THEN Err(<<Lit("Erro ao conectar com backend: "), Display(r.err)>>)
    ELSE IF response_json(r.body, deserialize_SimpleResponse(r.body)).ok
         THEN Ok(response_json(r.body, deserialize_SimpleResponse(r.body)).value)
         ELSE Err(<<Lit("Erro ao processar resposta: "),
                    Display(response_json(r.body, deserialize_SimpleResponse(r.body)).err)>>)

create_sample_data_call(i) ==
    Send(i, "create_sample_data", NoArg, "POST", "/database/sample-data", NoArg)

create_sample_data_resume(i) ==
    /\ pc[i] = "awaiting"
    /\ op[i] = "create_sample_data"
    /\ \E r \in Replies(request[i].path) : Return(i, r, create_sample_data_result(r))

-----------------------------------------------------------------------------
(* The specifications *)

\* no command has been invoked
Start ==
    /\ pc = [i \in Invocations |-> "idle"]
    /\ op = [i \in Invocations |-> "none"]
    /\ arg = [i \in Invocations |-> NoArg]
    /\ request = [i \in Invocations |-> NoRequest]
    /\ requests = [i \in Invocations |-> 0]
    /\ reply = [i \in Invocations |-> NoReply]
    /\ outcome = [i \in Invocations |-> NoOutcome]

\* the commands run concurrently
Init == scope = "gateway" /\ Start
\* one command, every QueryResponse the formatter distinguishes
InitFormat == scope = "format" /\ Start
\* one command, questions spelling the words of the blacklist
InitValidate == scope = "validate" /\ Start

Next ==
    \/ \E i \in Invocations :
           pc[i] = "idle" /\ \E question \in Questions : send_query_call(i, question)
    \/ \E i \in Invocations : send_query_resume(i)
    \/ \E i \in Invocations : get_database_drivers_call(i)
    \/ \E i \in Invocations : get_database_drivers_resume(i)
    \/ \E i \in Invocations : \E driver_type \in DriverTypes, config \in Configs :
           connect_database_call(i, driver_type, config)
    \/ \E i \in Invocations : connect_database_resume(i)
    \/ \E i \in Invocations : disconnect_database_call(i)
    \/ \E i \in Invocations : disconnect_database_resume(i)
    \/ \E i \in Invocations : get_database_status_call(i)
    \/ \E i \in Invocations : get_database_status_resume(i)
    \/ \E i \in Invocations : create_sample_data_call(i)
    \/ \E i \in Invocations : create_sample_data_resume(i)

Spec == Init /\ [][Next]_vars
SpecFormat == InitFormat /\ [][Next]_vars
SpecValidate == InitValidate /\ [][Next]_vars

-----------------------------------------------------------------------------
(* What the claims speak of *)

Blocked == Err(<<Lit("Entrada bloqueada por seguranca!")>>)

\* invocation i is a send_query that has been called
Queried(i) == op[i] = "send_query"

\* the body invocation i received, when it received a readable one
GotBody(i) ==
    pc[i] = "done" /\ reply[i].state = "response" /\ reply[i].body # Unreadable

\* the body of invocation i deserialized into the shape its command expects
Parsed(i) ==
    CASE op[i] = "send_query" -> deserialize_QueryResponse(reply[i].body)
      [] op[i] = "get_database_drivers" -> deserialize_Drivers(reply[i].body)
      [] op[i] = "connect_database" -> deserialize_DatabaseResponse(reply[i].body)
      [] op[i] = "get_database_status" -> deserialize_DatabaseStatus(reply[i].body)
      [] OTHER -> deserialize_SimpleResponse(reply[i].body)

\* send_query of invocation i received the QueryResponse Parsed(i).value
GotQueryResponse(i) == Queried(i) /\ GotBody(i) /\ Parsed(i).ok

Has(text, piece) == \E k \in DOMAIN text : text[k] = piece

\* the lines of a text: what stands between its line feeds
RECURSIVE LinesFrom(_, _, _)
LinesFrom(text, k, line) ==
    IF k > Len(text) THEN <<line>>
    ELSE IF text[k] = NL THEN <<line>> \o LinesFrom(text, k + 1, <<>>)
    ELSE LinesFrom(text, k + 1, Append(line, text[k]))
Lines(text) == LinesFrom(text, 1, <<>>)

HeaderAI == Lit("[robot] IA: ")
HeaderSQL == Lit("[memo] SQL: ")
HeaderResult == Lit("[chart] Resultado:")
HeaderTotal == Lit("[trend] Total de registros: ")
IsHeader(piece) == piece \in {HeaderAI, HeaderSQL, HeaderResult, HeaderTotal}

-----------------------------------------------------------------------------
(* C1 *)

Keywords ==
    {<<"d","r","o","p">>, <<"d","e","l","e","t","e">>,
     <<"i","n","s","e","r","t">>, <<"u","p","d","a","t","e">>}

Capital(c) ==
    IF \E k \in DOMAIN LowerCase : LowerCase[k] = c
    THEN UpperCase[CHOOSE k \in DOMAIN LowerCase : LowerCase[k] = c]
    ELSE c

\* the keyword is spelled in s from position p on, each letter in either case
SpelledAt(s, keyword, p) ==
    /\ p + Len(keyword) - 1 <= Len(s)
    /\ \A j \in 1..Len(keyword) : s[p + j - 1] \in {keyword[j], Capital(keyword[j])}

Mentions(s) == \E keyword \in Keywords, p \in 1..Len(s) : SpelledAt(s, keyword, p)

\* C1: validate_input returns false exactly for the questions that spell one
\* of drop, delete, insert, update somewhere, in any mix of letter cases, and
\* true for every other question.
C1_ValidateRejectsExactlyKeywords ==
    \A i \in Invocations :
        Queried(i) => (validate_input(arg[i].question) <=> ~ Mentions(arg[i].question))

\* a question with a keyword in mixed case inside a longer text was rejected
C1_Witness ==
    \E i \in Invocations :
        /\ Queried(i)
        /\ arg[i].question = <<" ","u","P","D","a","t","E","d">>
        /\ ~ validate_input(arg[i].question)
        /\ outcome[i] = Blocked

-----------------------------------------------------------------------------
(* C2 *)

\* C2: a send_query whose question the validator rejects has ended with the
\* blocked-input error and has issued no HTTP request; a send_query that has
\* issued a request, to POST /ai/process, has a question the validator accepts.
C2_ValidatedBeforeRequest ==
    \A i \in Invocations :
        Queried(i) =>
            /\ ~ validate_input(arg[i].question) =>
                   /\ pc[i] = "done"
                   /\ outcome[i] = Blocked
                   /\ requests[i] = 0
                   /\ request[i] = NoRequest
                   /\ reply[i] = NoReply
            /\ requests[i] > 0 =>
                   /\ validate_input(arg[i].question)
                   /\ request[i].path = "/ai/process"
                   /\ request[i].payload = [question |-> arg[i].question]

\* one send_query was rejected without a request while another one, accepted,
\* has its request under way
C2_Witness ==
    \E i, j \in Invocations :
        /\ Queried(i) /\ outcome[i] = Blocked /\ requests[i] = 0
        /\ Queried(j) /\ pc[j] = "awaiting" /\ requests[j] = 1

-----------------------------------------------------------------------------
(* C3 *)

\* C3: no invocation of any command issues more than one HTTP request,
\* whatever its await returned.
C3_AtMostOneRequest ==
    \A i \in Invocations : requests[i] <= 1

\* a command ended on a transport failure and a send_query on success = false,
\* each after one request
C3_Witness ==
    \E i, j \in Invocations :
        /\ pc[i] = "done" /\ reply[i].state = "failed" /\ requests[i] = 1
        /\ GotQueryResponse(j) /\ ~ Parsed(j).value.success /\ requests[j] = 1

-----------------------------------------------------------------------------
(* C4 *)

\* C4: a command that received a body which does not deserialize into the
\* shape it expects fails with a message that includes the body's text.
C4_DeserializationErrorHasBody ==
    \A i \in Invocations :
        (GotBody(i) /\ ~ Parsed(i).ok) =>
            /\ ~ outcome[i].ok
            /\ Has(outcome[i].err, Raw(reply[i].body))

-----------------------------------------------------------------------------
(* C5 *)

\* C5: a command whose request did not reach the backend fails with a message
\* that carries the cause, and the kind of that message (the literal it starts
\* with) is not the kind of the message of the same command when the body it
\* received does not deserialize.
C5_TransportDistinctFromDeserialization ==
    /\ \A i \in Invocations :
           (pc[i] = "done" /\ reply[i].state = "failed") =>
               /\ ~ outcome[i].ok
               /\ Has(outcome[i].err, Display(reply[i].err))
    /\ \A i, j \in Invocations :
           (/\ pc[i] = "done" /\ reply[i].state = "failed"
            /\ GotBody(j) /\ ~ Parsed(j).ok
            /\ op[i] = op[j]) =>
               outcome[i].err[1] # outcome[j].err[1]

-----------------------------------------------------------------------------
(* C6 *)

\* C6: a send_query that received a QueryResponse with success = false fails,
\* with a message that holds the error field when the response has one and the
\* placeholder "Erro desconhecido" when it has none; it never returns Ok.
C6_BackendErrorMessage ==
    \A i \in Invocations :
        (GotQueryResponse(i) /\ ~ Parsed(i).value.success) =>
            /\ ~ outcome[i].ok
            /\ outcome[i].err[1] = Lit("[x] ")
            /\ IF Parsed(i).value.error.some
               THEN Has(outcome[i].err, Lit(Parsed(i).value.error.val))
               ELSE /\ Has(outcome[i].err, Lit("Erro desconhecido"))
                    /\ \A k \in DOMAIN outcome[i].err : outcome[i].err[k] # Lit("")

\* success = false without an error field, the fields of a success all present
C6_Witness ==
    \E i \in Invocations :
        /\ GotQueryResponse(i)
        /\ ~ Parsed(i).value.success
        /\ ~ Parsed(i).value.error.some
        /\ Parsed(i).value.ai_response = Some("Hi")
        /\ Parsed(i).value.sql = Some("SELECT 1")
        /\ Parsed(i).value.result.some
        /\ Parsed(i).value.row_count.some
        /\ ~ outcome[i].ok

-----------------------------------------------------------------------------
(* C7 *)

\* the section headers of a text, in the order they stand in it
Headers(text) == SelectSeq(text, IsHeader)

\* the headers of the sections a QueryResponse has the fields for
HeadersDue(response) ==
    (IF response.ai_response.some /\ response.ai_response.val # ""
     THEN <<HeaderAI>> ELSE <<>>)
    \o (IF response.sql.some /\ response.sql.val # "" THEN <<HeaderSQL>> ELSE <<>>)
    \o (IF response.result.some THEN <<HeaderResult>> ELSE <<>>)
    \o (IF response.row_count.some THEN <<HeaderTotal>> ELSE <<>>)

\* C7: a send_query that received a QueryResponse with success = true returns
\* Ok with a text whose sections are those whose field is present (AI and SQL
\* also non-empty), once each, in the order AI, SQL, Result, Total; with no
\* such field the text is empty.
C7_SectionsPresentInOrder ==
    \A i \in Invocations :
        (GotQueryResponse(i) /\ Parsed(i).value.success) =>
            /\ outcome[i].ok
            /\ Headers(outcome[i].value) = HeadersDue(Parsed(i).value)
            /\ HeadersDue(Parsed(i).value) = <<>> => outcome[i].value = <<>>

\* an empty ai_response beside a SQL and a row count, no result
C7_Witness ==
    \E i \in Invocations :
        /\ GotQueryResponse(i)
        /\ Parsed(i).value.success
        /\ Parsed(i).value.ai_response = Some("")
        /\ Parsed(i).value.sql = Some("SELECT 1")
        /\ ~ Parsed(i).value.result.some
        /\ Parsed(i).value.row_count.some
        /\ Headers(outcome[i].value) = <<HeaderSQL, HeaderTotal>>

-----------------------------------------------------------------------------
(* C8 *)

\* the index of the first line of `lines` that starts with the piece
RECURSIVE LineOf(_, _, _)
LineOf(lines, piece, k) ==
    IF k > Len(lines) THEN 0
    ELSE IF lines[k] # <<>> /\ lines[k][1] = piece THEN k
    ELSE LineOf(lines, piece, k + 1)

\* the lines from the k-th on, up to the first empty one
RECURSIVE Block(_, _)
Block(lines, k) ==
    IF k > Len(lines) \/ lines[k] = <<>> THEN <<>>
    ELSE <<lines[k]>> \o Block(lines, k + 1)

\* the lines under the Result header of a text
ResultBody(text) == Block(Lines(text), LineOf(Lines(text), HeaderResult, 1) + 1)

Min(a, b) == IF a < b THEN a ELSE b

\* C8: under the Result header, an empty array gives the one line "Nenhum
\* resultado encontrado."; an array of N > 0 records gives the line "<N>
\* registros encontrados:", then the first min(N, 5) records in order, numbered
\* from 1, then the line "... e mais <N-5> registros" exactly when N > 5; a
\* value that is no array gives its JSON text.
C8_ResultSection ==
    \A i \in Invocations :
        (GotQueryResponse(i) /\ Parsed(i).value.success /\ Parsed(i).value.result.some) =>
            LET v == Parsed(i).value.result.val
                body == ResultBody(outcome[i].value)
                N == Len(v.items)
            IN  /\ LineOf(Lines(outcome[i].value), HeaderResult, 1) > 0
                /\ IF v.t # "arr" THEN body = <<value_display(v)>>
                   ELSE IF N = 0 THEN body = << <<Lit("Nenhum resultado encontrado.")>> >>
                   ELSE /\ Len(body) = 1 + Min(N, 5) + (IF N > 5 THEN 1 ELSE 0)
                        /\ body[1] = Decimal(N) \o <<Lit(" registros encontrados:")>>
                        /\ \A k \in 1..Min(N, 5) :
                               body[1 + k] = <<Lit("  ")>> \o Decimal(k) \o <<Lit(": ")>>
                                             \o value_display(v.items[k])
                        /\ N > 5 =>
                               body[Len(body)] = <<Lit("  ... e mais ")>> \o Decimal(N - 5)
                                                 \o <<Lit(" registros")>>

\* an array of more than five records was rendered
C8_Witness ==
    \E i \in Invocations :
        /\ GotQueryResponse(i)
        /\ Parsed(i).value.success
        /\ Parsed(i).value.result.some
        /\ Parsed(i).value.result.val.t = "arr"
        /\ Len(Parsed(i).value.result.val.items) > 5
        /\ outcome[i].ok
        /\ Len(ResultBody(outcome[i].value)) = 7

-----------------------------------------------------------------------------
(* C9 *)

\* what the command of invocation i returns for its own arguments and reply
OwnResult(i) ==
    CASE op[i] = "send_query" ->
             IF ~ validate_input(arg[i].question) THEN Blocked
             ELSE send_query_result(reply[i])
      [] op[i] = "get_database_drivers" -> get_database_drivers_result(reply[i])
      [] op[i] = "connect_database" -> connect_database_result(reply[i])
      [] op[i] = "disconnect_database" -> disconnect_database_result(reply[i])
      [] op[i] = "get_database_status" -> get_database_status_result(reply[i])
      [] op[i] = "create_sample_data" -> create_sample_data_result(reply[i])

\* invocation i can take its next step, whatever the others are doing
CanCall(i) ==
    /\ ENABLED (\E question \in Questions : send_query_call(i, question))
    /\ ENABLED get_database_drivers_call(i)
    /\ ENABLED (\E driver_type \in DriverTypes, config \in Configs :
                    connect_database_call(i, driver_type, config))
    /\ ENABLED disconnect_database_call(i)
    /\ ENABLED get_database_status_call(i)
    /\ ENABLED create_sample_data_call(i)

CanResume(i) ==
    \/ ENABLED send_query_resume(i)
    \/ ENABLED get_database_drivers_resume(i)
    \/ ENABLED connect_database_resume(i)
    \/ ENABLED disconnect_database_resume(i)
    \/ ENABLED get_database_status_resume(i)
    \/ ENABLED create_sample_data_resume(i)

\* C9: with commands running concurrently, the result of every finished
\* invocation is the one its command gives for its own arguments and the reply
\* to its own request, two invocations alike in these have the same result, and
\* an invocation that has not finished can take its next step in every state.
C9_InvocationsIndependent ==
    /\ \A i \in Invocations : pc[i] = "done" => outcome[i] = OwnResult(i)
    /\ \A i, j \in Invocations :
           (/\ pc[i] = "done" /\ pc[j] = "done"
            /\ op[i] = op[j] /\ arg[i] = arg[j] /\ reply[i] = reply[j]) =>
               outcome[i] = outcome[j]
    /\ \A i \in Invocations :
           /\ pc[i] = "idle" => CanCall(i)
           /\ pc[i] = "awaiting" => CanResume(i)

\* two invocations of one command finished with different replies, each with
\* the result of its own reply
C9_Witness ==
    \E i, j \in Invocations :
        /\ pc[i] = "done" /\ pc[j] = "done"
        /\ op[i] = op[j] /\ arg[i] = arg[j]
        /\ reply[i].state = "failed" /\ reply[j].state = "response"
        /\ outcome[i] # outcome[j]

-----------------------------------------------------------------------------
(* C10 *)

\* C10: in the text of a successful send_query, every section header after the
\* first line stands after exactly one empty line.
C10_OneBlankLineBetweenSections ==
    \A i \in Invocations :
        (GotQueryResponse(i) /\ Parsed(i).value.success) =>
            LET lines == Lines(outcome[i].value)
            IN  \A h \in 2..Len(lines) :
                    (lines[h] # <<>> /\ IsHeader(lines[h][1])) =>
                        /\ lines[h - 1] = <<>>
                        /\ h > 2 => lines[h - 2] # <<>>

=============================================================================
